---- MODULE Spec2Model ----
(***************************************************************************)
(* LLM playground: the credential resolver (api_config.py), the Streamlit  *)
(* session surface (app.py) and the Flask HTTP surface with its client     *)
(* script (api/index.py).                                                  *)
(*                                                                         *)
(* A Python str is a sequence of tokens, so that f-string formatting and   *)
(* concatenation are sequence concatenation and "contains" is a search.    *)
(* Python's None is the reserved one-token sequence None.                  *)
(*                                                                         *)
(* A handler that waits, or that reads or writes state other threads of    *)
(* the process share (os.environ, st.secrets, the key held by the          *)
(* google.generativeai module), is one action per stretch of code between  *)
(* two such points: other request threads, other sessions and a change of  *)
(* the environment take their steps in between.                            *)
(***************************************************************************)
EXTENDS Integers, Sequences, FiniteSets, TLC

VARIABLES
    program,              \* which program of the repository this process runs
    STREAMLIT_AVAILABLE,  \* api_config.py module flag
    secrets,              \* st.secrets, the structured secrets store
    environ,              \* os.environ restricted to the API key names
    resolved,             \* the _get_env_var call made by the last step, if it made one
    session,              \* st.session_state of app.py, for the session observed
    script,               \* that session's script run, when it is inside a form submit
    run,                  \* what the last script run of the session observed did
    peer,                 \* another browser session served by the same app.py process
    client,               \* the browser page: the script's messages array
    net,                  \* the page's fetch() requests that have not settled yet
    threads,              \* the server's request threads, each inside chat() or idle
    genai                 \* the API key the google.generativeai module holds (genai.configure)

vars == <<program, STREAMLIT_AVAILABLE, secrets, environ, resolved, session, script, run, peer,
          client, net, threads, genai>>

----------------------------------------------------------------------------
(* Python values *)

None == <<"<None>">>

\* "" is falsy, None is falsy, any other str is truthy
Truthy(v) == v # None /\ v # <<>>

\* needle in haystack, for token sequences
Contains(haystack, needle) ==
    \E i \in 0..(Len(haystack) - Len(needle)) :
        SubSeq(haystack, i + 1, i + Len(needle)) = needle

StartsWith(s, prefix) ==
    Len(s) >= Len(prefix) /\ SubSeq(s, 1, Len(prefix)) = prefix

----------------------------------------------------------------------------
(* api_config.py: APIConfig._get_env_var and the key getters *)

KeyNames == {"OPENAI_API_KEY", "ANTHROPIC_API_KEY", "GOOGLE_API_KEY", "GROQ_API_KEY"}

\* st.secrets as _get_env_var sees it:
\*   no_attr  hasattr(st, 'secrets') is false
\*   raises   touching the store raises (no secrets file, api_keys not a mapping)
\*   no_ns    the store has no api_keys namespace
\*   ns       st.secrets.api_keys is a mapping; keys[k] = None when k is not in it
SecretStores(values) ==
    [kind : {"no_attr", "raises", "no_ns"}, keys : {[k \in KeyNames |-> None]}]
        \cup [kind : {"ns"}, keys : [KeyNames -> values \cup {None}]]

\* lines 72-78: the value after the secrets lookup (None when nothing was assigned)
SecretsLookup(avail, store, key) ==
    IF avail /\ store.kind = "ns" THEN store.keys[key] ELSE None

\* os.getenv(key, default)
getenv(env, key, default) == IF env[key] # None THEN env[key] ELSE default

\* a resolver that asks the environment first: a slip in the order of lines 72-82
EnvFirst_get_env_var(avail, store, env, key, default, required) ==
    LET fromEnv == getenv(env, key, None)
        value   == IF fromEnv # None THEN fromEnv
                   ELSE IF SecretsLookup(avail, store, key) # None
                        THEN SecretsLookup(avail, store, key)
                        ELSE default
    IN  IF required /\ ~Truthy(value)
        THEN [raised |-> TRUE, value |-> None]
        ELSE [raised |-> FALSE, value |-> value]

\* APIConfig._get_env_var(key, default, required)
_get_env_var(avail, store, env, key, default, required) ==
    LET value0 == SecretsLookup(avail, store, key)
        value  == IF value0 = None THEN getenv(env, key, default) ELSE value0
    IN  IF required /\ ~Truthy(value)
        THEN [raised |-> TRUE, value |-> None]
        ELSE [raised |-> FALSE, value |-> value]

\* the key getters used by app.py
get_openai_key(avail, store, env) ==
    _get_env_var(avail, store, env, "OPENAI_API_KEY", None, FALSE).value

get_anthropic_key(avail, store, env) ==
    _get_env_var(avail, store, env, "ANTHROPIC_API_KEY", None, FALSE).value

get_gemini_key(avail, store, env) ==
    _get_env_var(avail, store, env, "GOOGLE_API_KEY", None, FALSE).value

get_groq_key(avail, store, env) ==
    _get_env_var(avail, store, env, "GROQ_API_KEY", None, FALSE).value

----------------------------------------------------------------------------
(* The vendor SDKs, as the adapters see them *)

Providers == {"openai", "anthropic", "google", "groq"}

\* str(e) of what an SDK raises, and the reply texts of a successful call
VendorErrors == {<<"vendor failure">>}
VendorReplies == {<<"hello">>}

\* What the SDK does during one adapter invocation:
\*   import     the import statement raises
\*   construct  client construction raises (google: GenerativeModel, after
\*              genai.configure has stored the key)
\*   call       the vendor call is issued and raises
\*   extract    the call returns, reading the reply text raises
\*   ok         the call returns text
\* The adapters hand the key to the SDK without looking at it: what the SDK
\* does with a key, None included, is the SDK's.
VendorOutcomes(key) ==
    [kind : {"import", "construct", "call", "extract"}, text : VendorErrors]
        \cup [kind : {"ok"}, text : VendorReplies]

\* app.py imports openai, google.generativeai and groq when the script loads
\* (lines 7-9); only anthropic is imported inside its adapter (line 41)
SessionOutcomes(provider, key) ==
    {o \in VendorOutcomes(key) : o.kind = "import" => provider = "Anthropic"}

NoParam == 0 - 1

\* one outbound vendor call with the arguments the adapter passes
VendorCall(api, key, model, messages, text, history, new_turn, temperature, max_tokens) ==
    [api |-> api, key |-> key, model |-> model, messages |-> messages, text |-> text,
     history |-> history, new_turn |-> new_turn,
     temperature |-> temperature, max_tokens |-> max_tokens]

\* a try block that issues the call again when the first call raises
RetryTryVendor(outcome, request) ==
    CASE outcome.kind \in {"import", "construct"} ->
            [raised |-> TRUE, exc |-> outcome.text, value |-> None, calls |-> <<>>]
      [] outcome.kind = "call" ->
            [raised |-> TRUE, exc |-> outcome.text, value |-> None,
             calls |-> <<request, request>>]
      [] outcome.kind = "extract" ->
            [raised |-> TRUE, exc |-> outcome.text, value |-> None, calls |-> <<request>>]
      [] OTHER ->
            [raised |-> FALSE, exc |-> None, value |-> outcome.text, calls |-> <<request>>]

\* The body of an adapter's try block from the import up to the return:
\* either it raises str(e) = exc or it returns value; calls are the vendor
\* calls it issued on the way.
TryVendor(outcome, request) ==
    CASE outcome.kind \in {"import", "construct"} ->
            [raised |-> TRUE, exc |-> outcome.text, value |-> None, calls |-> <<>>]
      [] outcome.kind \in {"call", "extract"} ->
            [raised |-> TRUE, exc |-> outcome.text, value |-> None, calls |-> <<request>>]
      [] OTHER ->
            [raised |-> FALSE, exc |-> None, value |-> outcome.text, calls |-> <<request>>]

\* an adapter whose except clause is missing: the exception leaves the adapter
NoExceptReturn(t, prefix) ==
    [raised |-> t.raised,
     value  |-> IF t.raised THEN t.exc ELSE t.value,
     calls  |-> t.calls]

\* except Exception as e: return f"{prefix}{str(e)}"
ExceptReturn(t, prefix) ==
    [raised |-> FALSE,
     value  |-> IF t.raised THEN prefix \o t.exc ELSE t.value,
     calls  |-> t.calls]

----------------------------------------------------------------------------
(* app.py: the session adapters                                            *)
(* key is what the adapter's api_config.get_*_key() call returned; for the *)
(* Google adapter, which hands its key to the SDK module, it is the key    *)
(* the module holds when the call is issued                                *)

Message(role, content) == [role |-> role, content |-> content]

\* a conversion that forwards the user turns only
UserOnlyCopyMessages(messages) ==
    SelectSeq(messages, LAMBDA msg : msg.role = "user")

\* for msg in messages: out.append({"role": msg["role"], "content": msg["content"]})
CopyMessages(messages) ==
    [i \in 1..Len(messages) |-> Message(messages[i].role, messages[i].content)]

app_get_openai_response(user_input, messages, model, ss, key, outcome) ==
    ExceptReturn(
        TryVendor(outcome,
            VendorCall("chat.completions.create", key, model, CopyMessages(messages),
                       None, <<>>, None, ss.temperature, ss.max_tokens)),
        <<"Error:", " ">>)

app_get_anthropic_response(user_input, messages, model, ss, key, outcome) ==
    ExceptReturn(
        TryVendor(outcome,
            VendorCall("messages.create", key, model, CopyMessages(messages),
                       None, <<>>, None, ss.temperature, ss.max_tokens)),
        <<"Error:", " ">>)

\* a user turn stored without its surrounding whitespace
StrippedAppendUser(messages, user_input) ==
    Append(messages,
           Message("user",
                   IF user_input # None /\ user_input # <<>> /\ Head(user_input) = " "
                   THEN Tail(user_input) ELSE user_input))

\* line 353 of app.py, line 350 of api/index.py
AppendUser(messages, user_input) == Append(messages, Message("user", user_input))

\* a history that keeps the current turn: messages instead of messages[:-1]
WholeChatHistory(messages) ==
    [i \in 1..Len(messages) |->
        [role  |-> IF messages[i].role = "user" THEN "user" ELSE "model",
         parts |-> <<messages[i].content>>]]

\* lines 70-76: chat_history from messages[:-1]
ChatHistory(messages) ==
    [i \in 1..(IF Len(messages) = 0 THEN 0 ELSE Len(messages) - 1) |->
        [role  |-> IF messages[i].role = "user" THEN "user" ELSE "model",
         parts |-> <<messages[i].content>>]]

\* start_chat(history=chat_history) then chat.send_message(user_input)
app_get_google_response(user_input, messages, model, ss, key, outcome) ==
    ExceptReturn(
        TryVendor(outcome,
            VendorCall("send_message", key, model, <<>>,
                       None, ChatHistory(messages), user_input, NoParam, NoParam)),
        <<"Error:", " ">>)

app_get_groq_response(user_input, messages, model, ss, key, outcome) ==
    ExceptReturn(
        TryVendor(outcome,
            VendorCall("chat.completions.create", key, model, CopyMessages(messages),
                       None, <<>>, None, ss.temperature, ss.max_tokens)),
        <<"Error:", " ">>)

----------------------------------------------------------------------------
(* app.py: the script run *)

SessionProviders == {"OpenAI", "Anthropic", "Google", "Groq"}

\* lines 286-295
ModelsOf(provider) ==
    CASE provider = "OpenAI" ->
            <<"gpt-3.5-turbo", "gpt-4o-mini", "gpt-4o", "gpt-4-turbo">>
      [] provider = "Anthropic" ->
            <<"claude-opus-4-1-20250805", "claude-opus-4-20250514",
              "claude-sonnet-4-20250514", "claude-3-7-sonnet-20250219",
              "claude-3-5-haiku-20241022">>
      [] provider = "Google" ->
            <<"gemini-2.5-flash", "gemini-2.5-pro", "gemini-1.5-pro",
              "gemini-1.5-flash", "gemini-1.5-flash-8b">>
      [] provider = "Groq" ->
            <<"llama-3.1-70b-versatile", "llama-3.1-8b-instant",
              "mixtral-8x7b-32768", "gemma-7b-it">>
      [] OTHER -> <<"gemini-2.5-flash">>

\* temperature in tenths: 0.7 is 7
DefaultTemperature == 7
DefaultMaxTokens == 1000

\* lines 258-271
SessionInit ==
    [messages |-> <<>>, selected_provider |-> "Google",
     selected_model |-> "gemini-2.5-flash",
     temperature |-> DefaultTemperature, max_tokens |-> DefaultMaxTokens]

NoRun == [kind |-> "start", user_input |-> <<>>, adapter |-> "none", given |-> <<>>,
          outcome |-> "none", response |-> None, calls |-> <<>>, error |-> FALSE]


\* api_config and what it reads: the module flag, st.secrets, os.environ
Config(avail, store, env) == [avail |-> avail, store |-> store, env |-> env]

\* the key the selected provider's adapter resolves (lines 17, 42, 66, 88)
SessionKey(provider, cfg) ==
    CASE provider = "OpenAI"    -> get_openai_key(cfg.avail, cfg.store, cfg.env)
      [] provider = "Anthropic" -> get_anthropic_key(cfg.avail, cfg.store, cfg.env)
      [] provider = "Google"    -> get_gemini_key(cfg.avail, cfg.store, cfg.env)
      [] provider = "Groq"      -> get_groq_key(cfg.avail, cfg.store, cfg.env)
      [] OTHER                  -> None

\* the name that key getter passes to _get_env_var (api_config.py lines 90-112)
SessionKeyName(provider) ==
    CASE provider = "OpenAI"    -> "OPENAI_API_KEY"
      [] provider = "Anthropic" -> "ANTHROPIC_API_KEY"
      [] provider = "Google"    -> "GOOGLE_API_KEY"
      [] OTHER                  -> "GROQ_API_KEY"

\* a step that made no _get_env_var call
NoResolved == [key |-> "OPENAI_API_KEY", default |-> None, required |-> FALSE,
               raised |-> FALSE, value |-> None, called |-> FALSE, before |-> <<>>]

\* the result of the call the step before made, when it was this same call
Before(r, key, default, required) ==
    IF r.called /\ r.key = key /\ r.default = default /\ r.required = required
    THEN <<[raised |-> r.raised, value |-> r.value]>>
    ELSE <<>>

\* the record of one _get_env_var call
Resolution(r, key, default, required, result) ==
    [key |-> key, default |-> default, required |-> required,
     raised |-> result.raised, value |-> result.value, called |-> TRUE,
     before |-> Before(r, key, default, required)]

\* lines 357-366: the adapter's outcome for the selected provider
SessionDispatch(user_input, ss, key, outcome) ==
    CASE ss.selected_provider = "OpenAI" ->
            app_get_openai_response(user_input, ss.messages, ss.selected_model, ss, key, outcome)
      [] ss.selected_provider = "Anthropic" ->
            app_get_anthropic_response(user_input, ss.messages, ss.selected_model, ss, key, outcome)
      [] ss.selected_provider = "Google" ->
            app_get_google_response(user_input, ss.messages, ss.selected_model, ss, key, outcome)
      [] ss.selected_provider = "Groq" ->
            app_get_groq_response(user_input, ss.messages, ss.selected_model, ss, key, outcome)
      [] OTHER ->
            [raised |-> FALSE, value |-> <<"Provider", " ", "not", " ", "configured.">>,
             calls |-> <<>>]

\* an assistant turn stored for a reply only, not for a diagnostic
ReplyOnlyAppendAssistant(messages, response) ==
    IF StartsWith(response, <<"Error:", " ">>)
    THEN messages
    ELSE Append(messages, Message("assistant", response))

\* line 369
AppendAssistant(messages, response) == Append(messages, Message("assistant", response))

\* a Clear Chat that drops only the last exchange
DropLastExchange(messages) ==
    IF Len(messages) <= 2 THEN <<>> ELSE SubSeq(messages, 1, Len(messages) - 2)

\* line 310
ClearedMessages(messages) == <<>>

\* what the text input can hold at submit; the first is the empty input
Inputs == {<<>>, <<" ", "hi">>, <<"how are you">>}

\* slider positions the model draws from: both ends of each range and the default
SliderTemperatures == {0, DefaultTemperature, 20}
SliderMaxTokens == {100, DefaultMaxTokens, 4000}

MaxTurns == 2

\* a script run outside a form submit
NoScript == [pc |-> "idle", user_input |-> <<>>, key |-> None, call |-> <<>>]

\* the SDK has not failed so far
NoOutcome == [kind |-> "none", text |-> None]

\* the SDK has been given the call and has not answered yet
InFlight == [kind |-> "call", text |-> <<>>]

\* the run record while the script is inside a form submit
Running(user_input) == [NoRun EXCEPT !.kind = "running", !.user_input = user_input]

\* lines 357-375 from the adapter's return on: the assistant turn is appended
\* (line 369) and the script reruns; ss1 already holds the user turn
Finished(ss1, user_input, key, outcome) ==
    LET r == SessionDispatch(user_input, ss1, key, outcome)
    IN  [session |-> IF r.raised THEN ss1
                     ELSE [ss1 EXCEPT !.messages = AppendAssistant(@, r.value)],
         script  |-> NoScript,
         run     |-> [kind |-> "submit", user_input |-> user_input,
                      adapter |-> ss1.selected_provider, given |-> ss1.messages,
                      outcome |-> outcome.kind, response |-> r.value,
                      calls |-> r.calls, error |-> r.raised]]

\* lines 351-357 and the adapter up to its first wait, key being what its key
\* getter returned: an empty input does nothing; otherwise the user turn is
\* appended (line 353) and the adapter either fails at its import or its
\* client construction (early), or has its key and is about to hand it to
\* the SDK module (Google, line 66), or has issued its vendor call
Pressed(ss, user_input, key, early) ==
    IF ~Truthy(user_input)
    THEN [session |-> ss, script |-> NoScript, run |-> [NoRun EXCEPT !.kind = "submit"]]
    ELSE LET ss1 == [ss EXCEPT !.messages = AppendUser(@, user_input)]
         IN  CASE early.kind # "none" \/ ss.selected_provider \notin SessionProviders ->
                     Finished(ss1, user_input, key, early)
               [] ss.selected_provider = "Google" ->
                     [session |-> ss1,
                      script  |-> [pc |-> "configure", user_input |-> user_input,
                                   key |-> key, call |-> <<>>],
                      run     |-> Running(user_input)]
               [] OTHER ->
                     [session |-> ss1,
                      script  |-> [pc |-> "waiting", user_input |-> user_input, key |-> key,
                                   call |-> SessionDispatch(user_input, ss1, key, InFlight).calls],
                      run     |-> Running(user_input)]

\* line 67, after genai.configure has stored the key: GenerativeModel(model)
\* raises (early) or the adapter goes on
ModelBuilt(ss1, sc, early) ==
    IF early.kind # "none"
    THEN Finished(ss1, sc.user_input, sc.key, early)
    ELSE [session |-> ss1, script |-> [sc EXCEPT !.pc = "ready"],
          run |-> Running(sc.user_input)]

\* lines 70-79: the history is built and send_message is issued; the SDK
\* authenticates the call with the key its module holds at that moment
Sent(ss1, sc, held) ==
    [session |-> ss1,
     script  |-> [sc EXCEPT !.pc = "waiting",
                            !.call = SessionDispatch(sc.user_input, ss1, held, InFlight).calls],
     run     |-> Running(sc.user_input)]

\* the vendor call returns or raises: the rest of the adapter and of the run
Answered(ss1, sc, outcome) ==
    Finished(ss1, sc.user_input, sc.call[1].key, outcome)

\* what the SDK can do before the adapter's first wait: nothing, or its import
\* (Anthropic, lines 41) or its client constructor raises; the Google adapter
\* constructs after it has stored its key
EarlyOutcomes(provider) ==
    {NoOutcome} \cup {o \in SessionOutcomes(provider, None) :
                         o.kind \in {"import", "construct"} /\ provider # "Google"}

\* the _get_env_var call of a form submit, if its adapter got as far
SubmitResolution(r, ss, user_input, cfg, early) ==
    IF Truthy(user_input) /\ ss.selected_provider \in SessionProviders /\ early.kind # "import"
    THEN Resolution(r, SessionKeyName(ss.selected_provider), None, FALSE,
                    _get_env_var(cfg.avail, cfg.store, cfg.env,
                                 SessionKeyName(ss.selected_provider), None, FALSE))
    ELSE NoResolved

\* widgets of the sidebar, lines 278-306: Streamlit runs the script for an
\* interaction once the run before it has ended; a changed provider gives a
\* new model selectbox, which starts at its first option
SelectProvider(p) ==
    /\ program = "app.py"
    /\ script.pc = "idle"
    /\ session' = [session EXCEPT !.selected_provider = p,
                                  !.selected_model =
                                      IF p = session.selected_provider
                                      THEN @ ELSE ModelsOf(p)[1]]
    /\ resolved' = NoResolved
    /\ run' = [NoRun EXCEPT !.kind = "widget"]
    /\ UNCHANGED <<program, STREAMLIT_AVAILABLE, secrets, environ, script, peer, client, net,
                   threads, genai>>

SelectModel(m) ==
    /\ program = "app.py"
    /\ script.pc = "idle"
    /\ session' = [session EXCEPT !.selected_model = m]
    /\ resolved' = NoResolved
    /\ run' = [NoRun EXCEPT !.kind = "widget"]
    /\ UNCHANGED <<program, STREAMLIT_AVAILABLE, secrets, environ, script, peer, client, net,
                   threads, genai>>

SetTemperature(t) ==
    /\ program = "app.py"
    /\ script.pc = "idle"
    /\ session' = [session EXCEPT !.temperature = t]
    /\ resolved' = NoResolved
    /\ run' = [NoRun EXCEPT !.kind = "widget"]
    /\ UNCHANGED <<program, STREAMLIT_AVAILABLE, secrets, environ, script, peer, client, net,
                   threads, genai>>

SetMaxTokens(n) ==
    /\ program = "app.py"
    /\ script.pc = "idle"
    /\ session' = [session EXCEPT !.max_tokens = n]
    /\ resolved' = NoResolved
    /\ run' = [NoRun EXCEPT !.kind = "widget"]
    /\ UNCHANGED <<program, STREAMLIT_AVAILABLE, secrets, environ, script, peer, client, net,
                   threads, genai>>

\* lines 309-311
ClearChat ==
    /\ program = "app.py"
    /\ script.pc = "idle"
    /\ session' = [session EXCEPT !.messages = ClearedMessages(@)]
    /\ resolved' = NoResolved
    /\ run' = [NoRun EXCEPT !.kind = "clear"]
    /\ UNCHANGED <<program, STREAMLIT_AVAILABLE, secrets, environ, script, peer, client, net,
                   threads, genai>>

\* lines 347-357: Send Message is pressed; the run goes as far as the
\* adapter's first wait
SubmitForm(user_input) ==
    /\ program = "app.py"
    /\ script.pc = "idle"
    /\ Len(session.messages) < 2 * MaxTurns
    /\ LET cfg == Config(STREAMLIT_AVAILABLE, secrets, environ)
       IN  \E early \in EarlyOutcomes(session.selected_provider) :
               LET s == Pressed(session, user_input,
                                SessionKey(session.selected_provider, cfg), early)
               IN  /\ session' = s.session
                   /\ script' = s.script
                   /\ run' = s.run
                   /\ resolved' = SubmitResolution(resolved, session, user_input, cfg, early)
    /\ UNCHANGED <<program, STREAMLIT_AVAILABLE, secrets, environ, peer, client, net,
                   threads, genai>>

\* lines 66-67: genai.configure(api_key=<the key resolved>), GenerativeModel(model)
SubmitConfigure ==
    /\ program = "app.py"
    /\ script.pc = "configure"
    /\ genai' = script.key
    /\ \E early \in {NoOutcome} \cup {o \in SessionOutcomes("Google", None) :
                                         o.kind = "construct"} :
           LET s == ModelBuilt(session, script, early)
           IN  /\ session' = s.session
               /\ script' = s.script
               /\ run' = s.run
    /\ resolved' = NoResolved
    /\ UNCHANGED <<program, STREAMLIT_AVAILABLE, secrets, environ, peer, client, net, threads>>

\* lines 70-79: start_chat and send_message
SubmitIssue ==
    /\ program = "app.py"
    /\ script.pc = "ready"
    /\ LET s == Sent(session, script, genai)
       IN  /\ session' = s.session
           /\ script' = s.script
           /\ run' = s.run
    /\ resolved' = NoResolved
    /\ UNCHANGED <<program, STREAMLIT_AVAILABLE, secrets, environ, peer, client, net,
                   threads, genai>>

\* the vendor call returns or raises; lines 34-36, 59-61, 81-83, 105-107,
\* then 369 and 375
SubmitReturn ==
    /\ program = "app.py"
    /\ script.pc = "waiting"
    /\ \E outcome \in SessionOutcomes(session.selected_provider, script.call[1].key) :
           /\ outcome.kind \in {"call", "extract", "ok"}
           /\ LET s == Answered(session, script, outcome)
              IN  /\ session' = s.session
                  /\ script' = s.script
                  /\ run' = s.run
    /\ resolved' = NoResolved
    /\ UNCHANGED <<program, STREAMLIT_AVAILABLE, secrets, environ, peer, client, net,
                   threads, genai>>

----------------------------------------------------------------------------
(* app.py: a second browser session of the same process. Streamlit runs each *)
(* session's script in a thread of its own; st.session_state belongs to the  *)
(* session, os.environ, st.secrets and the SDK modules to the process.       *)
(* The second session keeps the page as loaded and only sends messages.      *)

NoPeer == [session |-> SessionInit, script |-> NoScript]

PeerSubmit(user_input) ==
    /\ program = "app.py"
    /\ peer.script.pc = "idle"
    /\ Len(peer.session.messages) < 2 * MaxTurns
    /\ LET cfg == Config(STREAMLIT_AVAILABLE, secrets, environ)
       IN  \E early \in EarlyOutcomes(peer.session.selected_provider) :
               LET s == Pressed(peer.session, user_input,
                                SessionKey(peer.session.selected_provider, cfg), early)
               IN  /\ peer' = [session |-> s.session, script |-> s.script]
                   /\ resolved' = SubmitResolution(resolved, peer.session, user_input, cfg, early)
    /\ UNCHANGED <<program, STREAMLIT_AVAILABLE, secrets, environ, session, script, run,
                   client, net, threads, genai>>

PeerConfigure ==
    /\ program = "app.py"
    /\ peer.script.pc = "configure"
    /\ genai' = peer.script.key
    /\ \E early \in {NoOutcome} \cup {o \in SessionOutcomes("Google", None) :
                                         o.kind = "construct"} :
           LET s == ModelBuilt(peer.session, peer.script, early)
           IN  peer' = [session |-> s.session, script |-> s.script]
    /\ resolved' = NoResolved
    /\ UNCHANGED <<program, STREAMLIT_AVAILABLE, secrets, environ, session, script, run,
                   client, net, threads>>

PeerIssue ==
    /\ program = "app.py"
    /\ peer.script.pc = "ready"
    /\ LET s == Sent(peer.session, peer.script, genai)
       IN  peer' = [session |-> s.session, script |-> s.script]
    /\ resolved' = NoResolved
    /\ UNCHANGED <<program, STREAMLIT_AVAILABLE, secrets, environ, session, script, run,
                   client, net, threads, genai>>

PeerReturn ==
    /\ program = "app.py"
    /\ peer.script.pc = "waiting"
    /\ \E outcome \in SessionOutcomes(peer.session.selected_provider, peer.script.call[1].key) :
           /\ outcome.kind \in {"call", "extract", "ok"}
           /\ LET s == Answered(peer.session, peer.script, outcome)
              IN  peer' = [session |-> s.session, script |-> s.script]
    /\ resolved' = NoResolved
    /\ UNCHANGED <<program, STREAMLIT_AVAILABLE, secrets, environ, session, script, run,
                   client, net, threads, genai>>

----------------------------------------------------------------------------
----------------------------------------------------------------------------
(* api/index.py: the HTTP adapters                                        *)
(* key is what os.getenv returned to the adapter (lines 372, 388, 429);    *)
(* for the Google adapter it is the key the SDK module holds when          *)
(* generate_content is called                                              *)

api_get_openai_response(messages, model, temperature, max_tokens, key, outcome) ==
    ExceptReturn(
        TryVendor(outcome,
            VendorCall("chat.completions.create", key, model, messages,
                       None, <<>>, None, temperature, max_tokens)),
        <<"OpenAI", " ", "Error:", " ">>)

api_get_anthropic_response(messages, model, temperature, max_tokens, key, outcome) ==
    ExceptReturn(
        TryVendor(outcome,
            VendorCall("messages.create", key, model, messages,
                       None, <<>>, None, temperature, max_tokens)),
        <<"Anthropic", " ", "Error:", " ">>)

\* a list element that is not a {role, content} object: msg["role"] raises
Malformed == [role |-> "<no role>", content |-> None]

\* f"{value}" of a str or of None
Format(v) == IF v = None THEN <<"None">> ELSE v

\* a transcript that labels by "assistant": every other role becomes Human
RECURSIVE HumanUnlessAssistantText(_)
HumanUnlessAssistantText(messages) ==
    IF messages = <<>> THEN <<>>
    ELSE LET msg  == Head(messages)
             role == IF msg.role = "assistant" THEN "Assistant" ELSE "Human"
         IN  <<role, ":", " ">> \o Format(msg.content) \o <<"\n">>
                 \o HumanUnlessAssistantText(Tail(messages))

\* lines 409-412: conversation_text
RECURSIVE ConversationText(_)
ConversationText(messages) ==
    IF messages = <<>> THEN <<>>
    ELSE LET msg  == Head(messages)
             role == IF msg.role = "user" THEN "Human" ELSE "Assistant"
         IN  <<role, ":", " ">> \o Format(msg.content) \o <<"\n">>
                 \o ConversationText(Tail(messages))

\* lines 402-424: the loop over messages runs after the model is constructed
\* and before generate_content
api_get_google_response(messages, model, temperature, max_tokens, key, outcome) ==
    ExceptReturn(
        IF outcome.kind \notin {"import", "construct"}
              /\ \E i \in 1..Len(messages) : messages[i] = Malformed
        THEN [raised |-> TRUE, exc |-> <<"'role'">>, value |-> None, calls |-> <<>>]
        ELSE TryVendor(outcome,
                 VendorCall("generate_content", key, model, <<>>,
                            ConversationText(messages), <<>>, None,
                            temperature, max_tokens)),
        <<"Google", " ", "Error:", " ">>)

api_get_groq_response(messages, model, temperature, max_tokens, key, outcome) ==
    ExceptReturn(
        TryVendor(outcome,
            VendorCall("chat.completions.create", key, model, messages,
                       None, <<>>, None, temperature, max_tokens)),
        <<"Groq", " ", "Error:", " ">>)

----------------------------------------------------------------------------
(* api/index.py: chat(), the handler of POST /api/chat *)

\* data.get(field, default) on the request's JSON object
Get(body, field, default) == IF field \in body.keys THEN body[field] ELSE default

Json(success, response, error) ==
    [success |-> success, response |-> response, error |-> error]

\* os.getenv('<PROVIDER>_API_KEY') of lines 372, 388, 404, 429
ApiKey(provider, env) ==
    CASE provider = "openai"    -> getenv(env, "OPENAI_API_KEY", None)
      [] provider = "anthropic" -> getenv(env, "ANTHROPIC_API_KEY", None)
      [] provider = "google"    -> getenv(env, "GOOGLE_API_KEY", None)
      [] provider = "groq"      -> getenv(env, "GROQ_API_KEY", None)
      [] OTHER                  -> None

Matched(r) == [matched |-> TRUE, raised |-> r.raised, value |-> r.value, calls |-> r.calls]

\* an if/elif chain whose last arm is a plain else: any other provider gets groq
ElseGroqChatDispatch(provider, messages, model, temperature, max_tokens, key, outcome) ==
    CASE provider = "openai" ->
            Matched(api_get_openai_response(messages, model, temperature, max_tokens, key, outcome))
      [] provider = "anthropic" ->
            Matched(api_get_anthropic_response(messages, model, temperature, max_tokens, key, outcome))
      [] provider = "google" ->
            Matched(api_get_google_response(messages, model, temperature, max_tokens, key, outcome))
      [] OTHER ->
            Matched(api_get_groq_response(messages, model, temperature, max_tokens, key, outcome))

\* lines 353-362: the adapter's outcome; matched is FALSE in the final else
ChatDispatch(provider, messages, model, temperature, max_tokens, key, outcome) ==
    CASE provider = "openai" ->
            Matched(api_get_openai_response(messages, model, temperature, max_tokens, key, outcome))
      [] provider = "anthropic" ->
            Matched(api_get_anthropic_response(messages, model, temperature, max_tokens, key, outcome))
      [] provider = "google" ->
            Matched(api_get_google_response(messages, model, temperature, max_tokens, key, outcome))
      [] provider = "groq" ->
            Matched(api_get_groq_response(messages, model, temperature, max_tokens, key, outcome))
      [] OTHER ->
            [matched |-> FALSE, raised |-> FALSE, value |-> None, calls |-> <<>>]

\* lines 341-364, the body of the try: raised with str(e) = exc, or a reply
ChatTry(body, key, outcome) ==
    CASE body.json = "invalid" ->
            [raised |-> TRUE, exc |-> <<"400 Bad Request">>, reply |-> Json(FALSE, None, None),
             adapters |-> <<>>, calls |-> <<>>]
      [] body.json = "null" ->
            [raised |-> TRUE, exc |-> <<"'NoneType' object has no attribute 'get'">>,
             reply |-> Json(FALSE, None, None), adapters |-> <<>>, calls |-> <<>>]
      [] body.json = "object" /\ "messages" \in body.keys /\ ~body.messages.list ->
            [raised |-> TRUE, exc |-> <<"'NoneType' object has no attribute 'append'">>,
             reply |-> Json(FALSE, None, None), adapters |-> <<>>, calls |-> <<>>]
      [] OTHER ->
            LET message     == Get(body, "message", None)
                provider    == Get(body, "provider", "<None>")
                model       == Get(body, "model", "<None>")
                temperature == Get(body, "temperature", DefaultTemperature)
                max_tokens  == Get(body, "max_tokens", DefaultMaxTokens)
                messages0   == Get(body, "messages", [list |-> TRUE, items |-> <<>>]).items
                messages    == AppendUser(messages0, message)
                r           == ChatDispatch(provider, messages, model, temperature,
                                            max_tokens, key, outcome)
            IN  IF r.matched
                THEN [raised |-> r.raised, exc |-> r.value,
                      reply |-> Json(TRUE, r.value, None),
                      adapters |-> <<provider>>, calls |-> r.calls]
                ELSE [raised |-> FALSE, exc |-> None,
                      reply |-> Json(FALSE, None, <<"Invalid provider">>),
                      adapters |-> <<>>, calls |-> <<>>]

\* a handler without the catch-all of lines 366-367
ChatNoCatchAll(body, key, outcome) ==
    LET t == ChatTry(body, key, outcome)
    IN  [escaped |-> t.raised, reply |-> t.reply, adapters |-> t.adapters, calls |-> t.calls]

\* chat(): lines 340-367
chat(body, key, outcome) ==
    LET t == ChatTry(body, key, outcome)
    IN  [escaped  |-> FALSE,
         reply    |-> IF t.raised THEN Json(FALSE, None, t.exc) ELSE t.reply,
         adapters |-> t.adapters,
         calls    |-> t.calls]

\* what a request body can hold
BodyProviders == Providers \cup {"not-a-real-provider"}
BodyMessages == {Message("user", <<"hi">>), Message("assistant", <<"hello">>),
                 Message("system", <<"be brief">>), Malformed}
BodyTemperatures == {0, 25}
BodyMaxTokens == {1, 5000}

MaxHistory == 2

BodyLists == UNION {[1..n -> BodyMessages] : n \in 0..MaxHistory}

\* the optional fields of a JSON object body, each absent or present
ObjectBodies ==
    UNION {
        [json : {"object"}, keys : {ks \cup {"model"}},
         message : IF "message" \in ks THEN {<<"hi">>} ELSE {None},
         provider : IF "provider" \in ks THEN BodyProviders ELSE {"<None>"},
         model : {"gpt-4o"},
         temperature : IF "temperature" \in ks THEN BodyTemperatures ELSE {NoParam},
         max_tokens : IF "max_tokens" \in ks THEN BodyMaxTokens ELSE {NoParam},
         messages : IF "messages" \in ks
                    THEN [list : {TRUE}, items : BodyLists]
                             \cup {[list |-> FALSE, items |-> <<>>]}
                    ELSE {[list |-> TRUE, items |-> <<>>]}]
        : ks \in SUBSET {"message", "provider", "temperature", "max_tokens", "messages"}}

\* a body that is JSON null, and a body that is not JSON
OtherBody(json) ==
    [json |-> json, keys |-> {}, message |-> None, provider |-> "<None>", model |-> "<None>",
     temperature |-> NoParam, max_tokens |-> NoParam,
     messages |-> [list |-> TRUE, items |-> <<>>]]

RequestBodies == ObjectBodies \cup {OtherBody("null"), OtherBody("invalid")}


----------------------------------------------------------------------------
(* Idle values of the parts a specification does not exercise *)

\* the page as loaded: lines 173-197 and 232
NoClient == [messages |-> <<>>, provider |-> "openai", model |-> "gpt-4o",
             temperature |-> DefaultTemperature, max_tokens |-> DefaultMaxTokens]
NoNet == <<>>

\* a request thread outside chat()
NoLocals == [provider |-> "<None>", model |-> "<None>", temperature |-> NoParam,
             max_tokens |-> NoParam, messages |-> <<>>]
NoResult == [escaped |-> FALSE, reply |-> Json(FALSE, None, None),
             adapters |-> <<>>, calls |-> <<>>]
NoThread == [pc |-> "idle", request |-> OtherBody("null"), locals |-> NoLocals,
             key |-> None, outcome |-> "none", result |-> NoResult]
ThreadIds == {1, 2}
NoThreads == [t \in ThreadIds |-> NoThread]

AllKeys(v) == [k \in KeyNames |-> v]

----------------------------------------------------------------------------
(* The session surface: one session of app.py under a fixed credential     *)
(* configuration                                                           *)

InitSession ==
    /\ program = "app.py"
    /\ STREAMLIT_AVAILABLE = TRUE
    /\ secrets \in {[kind |-> "raises", keys |-> AllKeys(None)],
                    [kind |-> "ns", keys |-> AllKeys(<<"sk-secret">>)]}
    /\ environ \in {AllKeys(None), AllKeys(<<"sk-env">>)}
    \* no key anywhere, a key in the environment only, a key in both sources
    /\ secrets.kind = "ns" => environ # AllKeys(None)
    /\ resolved = NoResolved
    /\ session = SessionInit
    /\ script = NoScript
    /\ run = NoRun
    /\ peer = NoPeer
    /\ client = NoClient
    /\ net = NoNet
    /\ threads = NoThreads
    /\ genai = None

NextSession ==
    \/ \E p \in SessionProviders : SelectProvider(p)
    \/ \E i \in {1, Len(ModelsOf(session.selected_provider))} :
           SelectModel(ModelsOf(session.selected_provider)[i])
    \/ \E t \in SliderTemperatures : SetTemperature(t)
    \/ \E n \in SliderMaxTokens : SetMaxTokens(n)
    \/ ClearChat
    \/ \E user_input \in Inputs : SubmitForm(user_input)
    \/ SubmitConfigure
    \/ SubmitIssue
    \/ SubmitReturn

SpecSession == InitSession /\ [][NextSession]_vars

----------------------------------------------------------------------------
(* Key rotation: the operator changes the environment or the secrets store  *)
(* while the process is running                                             *)

RotatedEnvirons == {AllKeys(None), AllKeys(<<"sk-env">>), AllKeys(<<"sk-env-2">>)}

RotatedSecrets ==
    {[kind |-> "raises", keys |-> AllKeys(None)],
     [kind |-> "ns", keys |-> AllKeys(<<"sk-secret">>)],
     [kind |-> "ns", keys |-> AllKeys(<<"sk-secret-2">>)]}

\* os.environ gets new values; no code of the repository runs
RotateEnviron(env) ==
    /\ program \in {"app.py", "api/index.py threads"}
    /\ env # environ
    /\ environ' = env
    /\ resolved' = NoResolved
    /\ UNCHANGED <<program, STREAMLIT_AVAILABLE, secrets, session, script, run, peer, client,
                   net, threads, genai>>

\* the secrets file gets new values; st.secrets reads it afresh
RotateSecrets(store) ==
    /\ program = "app.py"
    /\ store # secrets
    /\ secrets' = store
    /\ resolved' = NoResolved
    /\ UNCHANGED <<program, STREAMLIT_AVAILABLE, environ, session, script, run, peer, client,
                   net, threads, genai>>

----------------------------------------------------------------------------
(* api/index.py served by app.run (line 443): chat() runs in the server's   *)
(* request threads, each step below is one thread's progress                *)

ServerPrograms == {"api/index.py", "api/index.py threads", "page"}

\* flask.request, line 341: the request bound to the running thread's context
RequestOf(thr, t) == thr[t].request

\* a text a vendor returns that tells which call it answers
ReplyTo(call) == <<"re:", call.model>>

\* the reply texts of a successful call: a fixed text, or one that tells
\* which call it answers
Answers(call) ==
    [kind : {"ok"}, text : VendorReplies \cup {ReplyTo(call)}]

\* chat() returns (line 362, 364 or 367): key is the key the adapter worked with
Done(th, request, key, kind, outcome) ==
    [th EXCEPT !.pc = "done", !.outcome = kind, !.result = chat(request, key, outcome)]

\* the adapter has issued its vendor call and waits for it
Waiting(th, request, key) ==
    [th EXCEPT !.pc = "waiting",
               !.result = [NoResult EXCEPT !.adapters = chat(request, key, InFlight).adapters,
                                           !.calls = chat(request, key, InFlight).calls]]

\* lines 340-353 and 361-367: the locals are read from the request and the
\* user turn is appended; a body that makes this raise and a provider outside
\* the chain are answered at once
Entered(th, request) ==
    IF chat(request, None, InFlight).adapters = <<>>
    THEN Done(th, request, None, "none", InFlight)
    ELSE [th EXCEPT
             !.pc = "adapter",
             !.locals =
                 [provider    |-> Get(request, "provider", "<None>"),
                  model       |-> Get(request, "model", "<None>"),
                  temperature |-> Get(request, "temperature", DefaultTemperature),
                  max_tokens  |-> Get(request, "max_tokens", DefaultMaxTokens),
                  messages    |-> AppendUser(
                      Get(request, "messages", [list |-> TRUE, items |-> <<>>]).items,
                      Get(request, "message", None))]]

\* the server binds body to thread t, which enters chat()
Bound(thr, t, body) ==
    LET bound == [thr EXCEPT ![t] = [NoThread EXCEPT !.pc = "accepted", !.request = body]]
    IN  [bound EXCEPT ![t] = Entered(@, RequestOf(bound, t))]

\* what the SDK can do up to the point where the adapter has read its key
\* and, except for Google, built its client: nothing, or the import raises,
\* or the client constructor raises (lines 371-372, 387-388, 403-404, 428-429)
EarlyApiOutcomes(provider) ==
    {NoOutcome} \cup {o \in VendorOutcomes(None) :
                         \/ o.kind = "import"
                         \/ o.kind = "construct" /\ provider # "google"}

\* the adapter from its import to its first write or wait: the Google adapter
\* has read its key (line 404, the argument of genai.configure), the others
\* have built their client with the key and issued the call
Read(th, request, key, early) ==
    CASE early.kind = "import" -> Done(th, request, None, early.kind, early)
      [] early.kind = "construct" ->
             Done([th EXCEPT !.key = key], request, key, early.kind, early)
      [] th.locals.provider = "google" -> [th EXCEPT !.pc = "configure", !.key = key]
      [] OTHER -> Waiting([th EXCEPT !.key = key], request, key)

\* a POST /api/chat with a body of the given set reaches the server (the
\* requests of the page arrive by PageRequest)
ThreadAccept(t, bodies) ==
    /\ program \in ServerPrograms \ {"page"}
    /\ threads[t].pc = "idle"
    /\ \E body \in bodies : threads' = Bound(threads, t, body)
    /\ UNCHANGED <<program, STREAMLIT_AVAILABLE, secrets, environ, resolved, session, script, run,
                   peer, client, net, genai>>

\* the adapter is entered: import, os.getenv, client construction, call
ThreadRead(t) ==
    /\ program \in ServerPrograms
    /\ threads[t].pc = "adapter"
    /\ \E early \in EarlyApiOutcomes(threads[t].locals.provider) :
           threads' = [threads EXCEPT
                          ![t] = Read(@, RequestOf(threads, t),
                                      ApiKey(threads[t].locals.provider, environ), early)]
    /\ UNCHANGED <<program, STREAMLIT_AVAILABLE, secrets, environ, resolved, session, script, run,
                   peer, client, net, genai>>

\* lines 404-406: genai.configure stores the key read before in the SDK
\* module; then GenerativeModel(model) raises or returns
ThreadConfigure(t) ==
    /\ program \in ServerPrograms
    /\ threads[t].pc = "configure"
    /\ genai' = threads[t].key
    /\ \E early \in {NoOutcome} \cup {o \in VendorOutcomes(None) : o.kind = "construct"} :
           threads' = [threads EXCEPT
                          ![t] = IF early.kind = "none"
                                 THEN [@ EXCEPT !.pc = "ready"]
                                 ELSE Done(@, RequestOf(threads, t), threads[t].key,
                                           early.kind, early)]
    /\ UNCHANGED <<program, STREAMLIT_AVAILABLE, secrets, environ, resolved, session, script, run,
                   peer, client, net>>

\* lines 409-420: the transcript is built, which raises on a message without
\* a role, and generate_content is called; the SDK authenticates the call
\* with the key its module holds at that moment
ThreadIssue(t) ==
    /\ program \in ServerPrograms
    /\ threads[t].pc = "ready"
    /\ threads' = [threads EXCEPT
                      ![t] = IF chat(RequestOf(threads, t), genai, InFlight).calls = <<>>
                             THEN Done(@, RequestOf(threads, t), genai, "none", InFlight)
                             ELSE Waiting(@, RequestOf(threads, t), genai)]
    /\ UNCHANGED <<program, STREAMLIT_AVAILABLE, secrets, environ, resolved, session, script, run,
                   peer, client, net, genai>>

\* the vendor call returns or raises; the adapter returns and chat() wraps
\* its string (lines 381-383, 397-399, 422-424, 438-440 and 364)
ThreadReturn(t) ==
    /\ program \in ServerPrograms
    /\ threads[t].pc = "waiting"
    /\ LET call == threads[t].result.calls[1]
       IN  \E outcome \in {o \in VendorOutcomes(call.key) : o.kind \in {"call", "extract"}}
                              \cup Answers(call) :
               threads' = [threads EXCEPT
                              ![t] = Done(@, RequestOf(threads, t), call.key,
                                          outcome.kind, outcome)]
    /\ UNCHANGED <<program, STREAMLIT_AVAILABLE, secrets, environ, resolved, session, script, run,
                   peer, client, net, genai>>

\* the reply of thread t arrives at the fetch that waits for it, if one does
Delivered(fetches, t, reply) ==
    [i \in 1..Len(fetches) |->
        IF fetches[i].stage = "handling" /\ fetches[i].thread = t
        THEN [fetches[i] EXCEPT !.stage = "settled", !.ok = TRUE, !.data = reply]
        ELSE fetches[i]]

\* the reply is sent; the thread is free for the next request
ThreadSent(t) ==
    /\ program \in ServerPrograms
    /\ threads[t].pc = "done"
    /\ threads' = [threads EXCEPT ![t] = NoThread]
    /\ net' = Delivered(net, t, threads[t].result.reply)
    /\ UNCHANGED <<program, STREAMLIT_AVAILABLE, secrets, environ, resolved, session, script, run,
                   peer, client, genai>>

\* the steps of thread t inside chat()
ThreadStep(t) ==
    \/ ThreadRead(t)
    \/ ThreadConfigure(t)
    \/ ThreadIssue(t)
    \/ ThreadReturn(t)
    \/ ThreadSent(t)

----------------------------------------------------------------------------
(* The HTTP surface: api/index.py answering one POST /api/chat at a time,  *)
(* with any request body                                                   *)

InitHttp ==
    /\ program = "api/index.py"
    /\ STREAMLIT_AVAILABLE = FALSE
    /\ secrets = [kind |-> "no_attr", keys |-> AllKeys(None)]
    /\ environ \in {AllKeys(None), AllKeys(<<"sk-env">>)}
    /\ resolved = NoResolved
    /\ session = SessionInit
    /\ script = NoScript
    /\ run = NoRun
    /\ peer = NoPeer
    /\ client = NoClient
    /\ net = NoNet
    /\ threads = NoThreads
    /\ genai = None

NextHttp ==
    \/ ThreadAccept(1, RequestBodies)
    \/ ThreadStep(1)

SpecHttp == InitHttp /\ [][NextHttp]_vars

----------------------------------------------------------------------------
(* Concurrent requests: two request threads inside chat() at once, the     *)
(* environment changing while they run                                     *)

\* the requests the concurrent clients post
ThreadBodies ==
    {[json |-> "object",
      keys |-> {"message", "provider", "model", "temperature", "max_tokens", "messages"},
      message |-> <<"hi">>, provider |-> "google", model |-> "gemini-2.5-flash",
      temperature |-> 0, max_tokens |-> 1,
      messages |-> [list |-> TRUE,
                    items |-> <<Message("user", <<"hello">>), Message("assistant", <<"hello">>)>>]],
     [json |-> "object", keys |-> {"message", "provider", "model"},
      message |-> <<"how are you">>, provider |-> "google", model |-> "gemini-2.5-pro",
      temperature |-> NoParam, max_tokens |-> NoParam,
      messages |-> [list |-> TRUE, items |-> <<>>]],
     [json |-> "object",
      keys |-> {"message", "provider", "model", "temperature", "max_tokens", "messages"},
      message |-> <<"hi">>, provider |-> "openai", model |-> "gpt-4o",
      temperature |-> 25, max_tokens |-> 5000,
      messages |-> [list |-> TRUE, items |-> <<Message("system", <<"be brief">>)>>]],
     [json |-> "object", keys |-> {"message", "provider", "model"},
      message |-> <<"hi">>, provider |-> "not-a-real-provider", model |-> "gpt-4o",
      temperature |-> NoParam, max_tokens |-> NoParam,
      messages |-> [list |-> TRUE, items |-> <<>>]],
     OtherBody("null")}

InitThreads ==
    /\ program = "api/index.py threads"
    /\ STREAMLIT_AVAILABLE = FALSE
    /\ secrets = [kind |-> "no_attr", keys |-> AllKeys(None)]
    /\ environ \in {AllKeys(None), AllKeys(<<"sk-env">>)}
    /\ resolved = NoResolved
    /\ session = SessionInit
    /\ script = NoScript
    /\ run = NoRun
    /\ peer = NoPeer
    /\ client = NoClient
    /\ net = NoNet
    /\ threads = NoThreads
    /\ genai = None

NextThreads ==
    \/ \E t \in ThreadIds : ThreadAccept(t, ThreadBodies) \/ ThreadStep(t)
    \/ \E env \in RotatedEnvirons : RotateEnviron(env)

SpecThreads == InitThreads /\ [][NextThreads]_vars

----------------------------------------------------------------------------
(* api/index.py: the page's script *)

\* String.prototype.trim on a token sequence
RECURSIVE TrimLeft(_)
TrimLeft(s) == IF s # <<>> /\ Head(s) = " " THEN TrimLeft(Tail(s)) ELSE s

RECURSIVE TrimRight(_)
TrimRight(s) ==
    IF s # <<>> /\ s[Len(s)] = " " THEN TrimRight(SubSeq(s, 1, Len(s) - 1)) ELSE s

Trim(s) == TrimRight(TrimLeft(s))

\* const models, lines 225-230
PageModelsOf(provider) ==
    CASE provider = "openai" -> <<"gpt-4o", "gpt-4o-mini", "gpt-3.5-turbo">>
      [] provider = "anthropic" ->
            <<"claude-opus-4-1-20250805", "claude-opus-4-20250514",
              "claude-sonnet-4-20250514", "claude-3-7-sonnet-20250219",
              "claude-3-5-haiku-20241022">>
      [] provider = "google" ->
            <<"gemini-2.5-flash", "gemini-2.5-pro", "gemini-1.5-pro",
              "gemini-1.5-flash", "gemini-1.5-flash-8b">>
      [] provider = "groq" ->
            <<"llama-3.1-70b-versatile", "llama-3.1-8b-instant",
              "mixtral-8x7b-32768", "gemma-7b-it">>

\* addMessage, line 304: messages.push({role, content})
addMessage(messages, content, role) == Append(messages, Message(role, content))

\* clearChat, line 320: messages = []
clearChat(messages) == <<>>

\* the JSON body of lines 278-285
PageBody(message, c) ==
    [json |-> "object",
     keys |-> {"message", "provider", "model", "temperature", "max_tokens", "messages"},
     message |-> message, provider |-> c.provider, model |-> c.model,
     temperature |-> c.temperature, max_tokens |-> c.max_tokens,
     messages |-> [list |-> TRUE, items |-> c.messages]]

\* lines 288-297: what the page appends when the fetch settles
SettledText(fetch) ==
    IF ~fetch.ok THEN <<"Error:", " ", "Failed to get response">>
    ELSE IF fetch.data.success THEN fetch.data.response
    ELSE <<"Error:", " ">> \o fetch.data.error

\* provider select positions the model draws from
PageProviders == {"openai", "google"}

MaxInFlight == 2
MaxPageMessages == 2

\* a fetch that has not settled: on its way to the server (sent), being
\* handled by a request thread (handling), or back with a reply or a failure
\* and waiting for the page's event loop (settled)
Fetch(body) ==
    [stage |-> "sent", thread |-> 0, body |-> body, ok |-> FALSE,
     data |-> Json(FALSE, None, None)]

\* what the user types into the page's input before a send
PageTexts == {<<>>, <<" ", "hi">>}

\* the provider select, with updateModels (lines 234-245)
PageSelectProvider(p) ==
    /\ program = "page"
    /\ p # client.provider
    /\ client' = [client EXCEPT !.provider = p, !.model = PageModelsOf(p)[1]]
    /\ UNCHANGED <<program, STREAMLIT_AVAILABLE, secrets, environ, resolved, session, script,
                   run, peer, net, threads, genai>>

\* sendMessage up to its await (lines 258-286): the user turn is pushed and
\* the request leaves; the page is back in its event loop
PageSend(text) ==
    /\ program = "page"
    /\ Len(net) < MaxInFlight
    /\ Len(client.messages) + Len(net) < MaxPageMessages
    /\ LET message == Trim(text)
       IN  IF message = <<>>
           THEN UNCHANGED <<client, net>>
           ELSE LET c1 == [client EXCEPT !.messages = addMessage(@, message, "user")]
                IN  /\ client' = c1
                    /\ net' = Append(net, Fetch(PageBody(message, c1)))
    /\ UNCHANGED <<program, STREAMLIT_AVAILABLE, secrets, environ, resolved, session, script,
                   run, peer, threads, genai>>

\* the i-th request in flight reaches the server, which binds it to thread t
PageRequest(i, t) ==
    /\ program = "page"
    /\ i \in 1..Len(net)
    /\ net[i].stage = "sent"
    /\ threads[t].pc = "idle"
    /\ threads' = Bound(threads, t, net[i].body)
    /\ net' = [net EXCEPT ![i].stage = "handling", ![i].thread = t, ![i].body = None]
    /\ UNCHANGED <<program, STREAMLIT_AVAILABLE, secrets, environ, resolved, session, script,
                   run, peer, client, genai>>

\* the i-th fetch rejects: the request does not reach the server, or the
\* connection is lost while the server is handling it, which the server does
\* not notice
PageFail(i) ==
    /\ program = "page"
    /\ i \in 1..Len(net)
    /\ net[i].stage \in {"sent", "handling"}
    /\ net' = [net EXCEPT ![i].stage = "settled", ![i].thread = 0, ![i].body = None,
                          ![i].ok = FALSE]
    /\ UNCHANGED <<program, STREAMLIT_AVAILABLE, secrets, environ, resolved, session, script,
                   run, peer, client, threads, genai>>

\* sendMessage after its await (lines 288-300), for the i-th fetch
PageSettle(i) ==
    /\ program = "page"
    /\ i \in 1..Len(net)
    /\ net[i].stage = "settled"
    /\ client' = [client EXCEPT !.messages = addMessage(@, SettledText(net[i]), "assistant")]
    /\ net' = SubSeq(net, 1, i - 1) \o SubSeq(net, i + 1, Len(net))
    /\ UNCHANGED <<program, STREAMLIT_AVAILABLE, secrets, environ, resolved, session, script,
                   run, peer, threads, genai>>

\* the Clear Chat button of the page
PageClearChat ==
    /\ program = "page"
    /\ client' = [client EXCEPT !.messages = clearChat(@)]
    /\ UNCHANGED <<program, STREAMLIT_AVAILABLE, secrets, environ, resolved, session, script,
                   run, peer, net, threads, genai>>

InitPage ==
    /\ program = "page"
    /\ STREAMLIT_AVAILABLE = FALSE
    /\ secrets = [kind |-> "no_attr", keys |-> AllKeys(None)]
    /\ environ = AllKeys(<<"sk-env">>)
    /\ resolved = NoResolved
    /\ session = SessionInit
    /\ script = NoScript
    /\ run = NoRun
    /\ peer = NoPeer
    /\ client = NoClient
    /\ net = NoNet
    /\ threads = NoThreads
    /\ genai = None

NextPage ==
    \/ \E p \in PageProviders : PageSelectProvider(p)
    \/ \E text \in PageTexts : PageSend(text)
    \/ \E i \in 1..MaxInFlight : PageRequest(i, 1)
    \/ ThreadStep(1)
    \/ \E i \in 1..MaxInFlight : PageFail(i)
    \/ \E i \in 1..MaxInFlight : PageSettle(i)
    \/ PageClearChat

SpecPage == InitPage /\ [][NextPage]_vars

----------------------------------------------------------------------------
(* api_config.py run on its own: the resolver under every configuration *)

\* the key names whose values the configurations vary
VariedKeys == {"OPENAI_API_KEY", "GOOGLE_API_KEY"}

OnlyVaried(f) == \A k \in KeyNames \ VariedKeys : f[k] = None

ConfigStores ==
    {st \in SecretStores({<<>>, <<"sk-secret">>}) : OnlyVaried(st.keys)}

ConfigEnvirons ==
    {e \in [KeyNames -> {None, <<"sk-env">>}] : OnlyVaried(e)}

\* a resolver that takes the variable out of the environment: os.environ.pop
PoppingGetEnvVar(key, default, required) ==
    /\ program = "api_config.py"
    /\ LET r == _get_env_var(STREAMLIT_AVAILABLE, secrets, environ, key, default, required)
       IN  resolved' = Resolution(resolved, key, default, required, r)
    /\ environ' = [environ EXCEPT ![key] = None]
    /\ UNCHANGED <<program, STREAMLIT_AVAILABLE, secrets, session, script, run, peer, client, net,
                   threads, genai>>

\* one call of APIConfig._get_env_var
GetEnvVar(key, default, required) ==
    /\ program = "api_config.py"
    /\ LET r == _get_env_var(STREAMLIT_AVAILABLE, secrets, environ, key, default, required)
       IN  resolved' = Resolution(resolved, key, default, required, r)
    /\ UNCHANGED <<program, STREAMLIT_AVAILABLE, secrets, environ, session, script, run, peer, client,
                   net, threads, genai>>

\* APIConfig.get_gemini_client (lines 151-164): without the SDK it returns
\* None; with it, it resolves GOOGLE_API_KEY and, unless the key is missing
\* or empty, stores it in the SDK module
GetGeminiClient ==
    /\ program = "api_config.py"
    /\ \E imported \in BOOLEAN :
           IF imported
           THEN LET r == _get_env_var(STREAMLIT_AVAILABLE, secrets, environ,
                                      "GOOGLE_API_KEY", None, FALSE)
                IN  /\ resolved' = Resolution(resolved, "GOOGLE_API_KEY", None, FALSE, r)
                    /\ genai' = IF Truthy(r.value) THEN r.value ELSE genai
           ELSE /\ resolved' = NoResolved
                /\ genai' = genai
    /\ UNCHANGED <<program, STREAMLIT_AVAILABLE, secrets, environ, session, script, run, peer, client,
                   net, threads>>

InitConfig ==
    /\ program = "api_config.py"
    /\ STREAMLIT_AVAILABLE \in BOOLEAN
    /\ secrets \in ConfigStores
    /\ environ \in ConfigEnvirons
    /\ resolved = NoResolved
    /\ session = SessionInit
    /\ script = NoScript
    /\ run = NoRun
    /\ peer = NoPeer
    /\ client = NoClient
    /\ net = NoNet
    /\ threads = NoThreads
    /\ genai = None

NextConfig ==
    \/ \E key \in KeyNames, default \in {None, <<"fallback">>}, required \in BOOLEAN :
           GetEnvVar(key, default, required)
    \/ GetGeminiClient

SpecConfig == InitConfig /\ [][NextConfig]_vars

----------------------------------------------------------------------------
(* The repository: a process runs one of its programs *)

Init == InitSession \/ InitHttp \/ InitPage \/ InitConfig

Next == NextSession \/ NextHttp \/ NextPage \/ NextConfig

Spec == Init /\ [][Next]_vars

\* the two surfaces that answer a chat turn: the session UI and POST /api/chat
InitChat == InitSession \/ InitHttp

NextChat == NextSession \/ NextHttp

SpecChat == InitChat /\ [][NextChat]_vars

\* the two user interfaces that keep a conversation: the session UI and the
\* page with its server
InitConversation == InitSession \/ InitPage

NextConversation == NextSession \/ NextPage

SpecConversation == InitConversation /\ [][NextConversation]_vars


----------------------------------------------------------------------------
(* Key rotation under load: two sessions of app.py, or two request threads  *)
(* of api/index.py, with the environment and the secrets store changing     *)
(* while they run                                                           *)

InitRotation == InitSession \/ InitThreads

\* the session observed uses one adapter that keeps its key in its client
\* and the one that stores it in the SDK module; the other session sends
\* with the page as loaded (Google)
NextRotation ==
    \/ \E p \in {"OpenAI", "Google"} : SelectProvider(p)
    \/ SubmitForm(<<"how are you">>)
    \/ SubmitConfigure
    \/ SubmitIssue
    \/ SubmitReturn
    \/ PeerSubmit(<<" ", "hi">>)
    \/ PeerConfigure
    \/ PeerIssue
    \/ PeerReturn
    \/ \E store \in RotatedSecrets : RotateSecrets(store)
    \/ NextThreads

SpecRotation == InitRotation /\ [][NextRotation]_vars

----------------------------------------------------------------------------
(* Claims about POST /api/chat. A request is answered when its thread has  *)
(* returned from chat() and not yet sent the reply (pc = "done").          *)

Handled(t) == threads[t].pc = "done"
RequestProvider(t) == Get(threads[t].request, "provider", "<None>")
Reply(t) == threads[t].result.reply

\* the body is a JSON object whose messages field is absent or a list
WellFormedBody(body) ==
    body.json = "object" /\ Get(body, "messages", [list |-> TRUE]).list

InvalidProviderRequest(t) == Handled(t) /\ RequestProvider(t) \notin Providers

\* C1, as stated: every request whose provider is not one of the four is
\* answered {success: false, error: "Invalid provider"} and reaches no adapter
\* and no vendor, whatever else the body holds.
C1_AnyBodyInvalidProvider ==
    \A t \in ThreadIds :
        (InvalidProviderRequest(t) /\ threads[t].request.json = "object") =>
            /\ Reply(t) = Json(FALSE, None, <<"Invalid provider">>)
            /\ threads[t].result.adapters = <<>>
            /\ threads[t].result.calls = <<>>

\* C1, amended: a request whose provider is not one of the four reaches no
\* adapter and no vendor and is answered with success false; the error is
\* exactly "Invalid provider" when the body is a JSON object whose messages
\* field is absent or a list.
C1_InvalidProvider ==
    \A t \in ThreadIds :
        InvalidProviderRequest(t) =>
            /\ ~Reply(t).success
            /\ threads[t].result.adapters = <<>>
            /\ threads[t].result.calls = <<>>
            /\ threads[t].key = None
            /\ WellFormedBody(threads[t].request) =>
                   Reply(t) = Json(FALSE, None, <<"Invalid provider">>)

C1_Witness ==
    /\ Handled(1)
    /\ RequestProvider(1) = "not-a-real-provider"
    /\ "messages" \in threads[1].request.keys
    /\ Len(threads[1].request.messages.items) = MaxHistory
    /\ "temperature" \in threads[1].request.keys
    /\ Reply(1).error = <<"Invalid provider">>

\* C2: success is true only when the selected adapter's vendor call
\* succeeded, and success is false with an error text whenever the adapter
\* failed or the provider is invalid.
C2_SuccessMeansVendorSucceeded ==
    \A t \in ThreadIds :
        Handled(t) =>
            /\ Reply(t).success =>
                   threads[t].result.adapters # <<>> /\ threads[t].outcome = "ok"
            /\ (threads[t].result.adapters # <<>> /\ threads[t].outcome # "ok") =>
                   ~Reply(t).success /\ Reply(t).error # None
            /\ RequestProvider(t) \notin Providers =>
                   ~Reply(t).success /\ Reply(t).error # None

\* C3: chat() always returns a JSON value with a success flag and either a
\* response or an error string; no exception leaves the handler.
C3_ChatNeverRaises ==
    \A t \in ThreadIds :
        Handled(t) =>
            /\ ~threads[t].result.escaped
            /\ Reply(t).success \in BOOLEAN
            /\ Reply(t).success => Reply(t).response # None /\ Reply(t).error = None
            /\ ~Reply(t).success => Reply(t).error # None /\ Reply(t).response = None

C3_Witness ==
    /\ Handled(1)
    /\ RequestProvider(1) \in Providers
    /\ "messages" \in threads[1].request.keys /\ ~threads[1].request.messages.list
    /\ ~threads[1].result.escaped
    /\ Reply(1) = Json(FALSE, None, <<"'NoneType' object has no attribute 'append'">>)

----------------------------------------------------------------------------
(* Claims about both surfaces *)

\* the last script run of the session was a chat turn that has ended
ChatTurn == run.kind = "submit" /\ run.adapter # "none"

\* the SDK got as far as the vendor call
ReachedCall(kind) == kind \in {"call", "extract", "ok"}

\* the HTTP Google adapter fails on a list element without a role, before its call
FormattingFails(provider, messages) ==
    provider = "google" /\ \E i \in 1..Len(messages) : messages[i] = Malformed

\* C4, as stated: a chat request (a POST with a recognised provider and a
\* well-formed body, a form submit with non-empty input) selects exactly one
\* adapter and that adapter issues exactly one vendor call, never zero.
C4_ExactlyOneVendorCall ==
    /\ \A t \in ThreadIds :
           (Handled(t) /\ RequestProvider(t) \in Providers
                /\ WellFormedBody(threads[t].request)) =>
               Len(threads[t].result.adapters) = 1 /\ Len(threads[t].result.calls) = 1
    /\ ChatTurn => Len(run.calls) = 1

\* C4, amended: a chat request selects exactly one adapter and that adapter
\* issues at most one vendor call: exactly one when the SDK import, the client
\* construction and the HTTP Google formatting succeed, none otherwise; a
\* request with an unknown provider or a malformed body selects no adapter.
\* While a request waits for the vendor, one call is out.
C4_AtMostOneVendorCall ==
    /\ \A t \in ThreadIds :
           /\ Handled(t) =>
                  /\ Len(threads[t].result.adapters) =
                         (IF RequestProvider(t) \in Providers
                                /\ WellFormedBody(threads[t].request)
                          THEN 1 ELSE 0)
                  /\ Len(threads[t].result.calls) =
                         (IF /\ threads[t].result.adapters # <<>>
                             /\ ReachedCall(threads[t].outcome)
                          THEN 1 ELSE 0)
                  /\ FormattingFails(RequestProvider(t), threads[t].locals.messages) =>
                         threads[t].result.calls = <<>>
           /\ threads[t].pc = "waiting" =>
                  Len(threads[t].result.adapters) = 1 /\ Len(threads[t].result.calls) = 1
           /\ threads[t].pc \in {"adapter", "configure", "ready"} =>
                  threads[t].result.calls = <<>>
    /\ ChatTurn => Len(run.calls) = (IF ReachedCall(run.outcome) THEN 1 ELSE 0)
    /\ (run.kind = "submit" /\ run.adapter = "none") => run.calls = <<>>
    /\ Len(script.call) = (IF script.pc = "waiting" THEN 1 ELSE 0)

C4_Witness ==
    /\ run.kind = "submit"
    /\ run.adapter = "Anthropic"
    /\ run.outcome = "call"
    /\ Len(run.calls) = 1
    /\ Len(session.messages) = 2 * MaxTurns

\* the provider's name as the spec writes it in diagnostics
DisplayName(provider) ==
    CASE provider \in {"openai", "OpenAI"}       -> "OpenAI"
      [] provider \in {"anthropic", "Anthropic"} -> "Anthropic"
      [] provider \in {"google", "Google"}       -> "Google"
      [] provider \in {"groq", "Groq"}           -> "Groq"
      [] OTHER                                   -> "?"

\* C5: every adapter turns every failure of its vendor interaction into a
\* returned diagnostic prefixed with its provider's name, "<Name> Error: ",
\* and lets no exception out.
C5_DiagnosticNamesProvider ==
    /\ (ChatTurn /\ run.outcome # "ok") =>
           /\ ~run.error
           /\ StartsWith(run.response, <<DisplayName(run.adapter), " ", "Error:", " ">>)
    /\ \A t \in ThreadIds :
           (Handled(t) /\ threads[t].result.adapters # <<>> /\ threads[t].outcome # "ok") =>
               /\ ~threads[t].result.escaped
               /\ StartsWith(Reply(t).response,
                             <<DisplayName(RequestProvider(t)), " ", "Error:", " ">>)

\* C6: with no key for the provider in the secrets store or the environment,
\* the provider's adapter on either surface returns a failure whose message
\* contains the provider's name, never a reply.
C6_MissingKeyNamesProvider ==
    /\ (ChatTurn
            /\ SessionKey(run.adapter, Config(STREAMLIT_AVAILABLE, secrets, environ)) = None) =>
           /\ run.outcome # "ok"
           /\ Contains(run.response, <<DisplayName(run.adapter)>>)
    /\ \A t \in ThreadIds :
           (Handled(t) /\ threads[t].result.adapters # <<>>
                /\ ApiKey(RequestProvider(t), environ) = None) =>
               /\ threads[t].outcome # "ok"
               /\ Contains(Reply(t).response, <<DisplayName(RequestProvider(t))>>)

----------------------------------------------------------------------------
(* Claims about the session surface *)

GoogleTurn ==
    run.kind = "submit" /\ run.adapter = "Google" /\ run.calls # <<>>

\* C7: the session Google adapter, given a conversation of n >= 1 messages
\* ending with the current user turn, starts the chat with a history of the
\* first n-1 messages in order, each with role "user" for a user message and
\* "model" otherwise and with parts the one-element list of its content, and
\* sends the content of the last message as the new turn; this holds for the
\* call when it is issued and for the call the finished run reports.
C7_GoogleHistory ==
    /\ GoogleTurn =>
           LET call == run.calls[1]
               n    == Len(run.given)
           IN  /\ n >= 1
               /\ call.api = "send_message"
               /\ Len(call.history) = n - 1
               /\ \A i \in 1..(n - 1) :
                      /\ call.history[i].role =
                             (IF run.given[i].role = "user" THEN "user" ELSE "model")
                      /\ call.history[i].parts = <<run.given[i].content>>
               /\ call.new_turn = run.given[n].content
    /\ (script.pc = "waiting" /\ session.selected_provider = "Google") =>
           LET call == script.call[1]
               n    == Len(session.messages)
           IN  /\ n >= 1
               /\ session.messages[n] = Message("user", script.user_input)
               /\ Len(call.history) = n - 1
               /\ \A i \in 1..(n - 1) :
                      /\ call.history[i].role =
                             (IF session.messages[i].role = "user" THEN "user" ELSE "model")
                      /\ call.history[i].parts = <<session.messages[i].content>>
               /\ call.new_turn = session.messages[n].content

C7_Witness ==
    /\ GoogleTurn
    /\ Len(run.given) = 3
    /\ run.given[2] = Message("assistant", <<"hello">>)
    /\ run.given[3] = Message("user", <<"how are you">>)
    /\ Len(run.calls[1].history) = 2
    /\ run.calls[1].history[1].role = "user"
    /\ run.calls[1].history[2] = [role |-> "model", parts |-> <<<<"hello">>>>]
    /\ run.calls[1].new_turn = <<"how are you">>

\* the string the selected adapter returns for the vendor's behaviour
Returned(kind, text) ==
    IF kind = "ok" THEN text ELSE <<"Error:", " ">> \o text

\* C8: a form submit with non-empty input on a conversation of length n keeps
\* the first n messages and appends the user turn with the input exactly
\* before the adapter is invoked; while the adapter waits for the vendor the
\* conversation ends with that user turn; when the adapter returns, the
\* assistant turn with its returned string exactly is appended, which gives
\* length n+2.
C8_TurnRoundTrip ==
    [][/\ (script.pc = "idle" /\ run'.kind = "running") =>
              /\ Truthy(run'.user_input)
              /\ session'.messages = session.messages \o <<Message("user", run'.user_input)>>
              /\ script'.user_input = run'.user_input
       /\ (script.pc = "idle" /\ run'.kind = "submit" /\ Truthy(run'.user_input)) =>
              /\ run'.given = session.messages \o <<Message("user", run'.user_input)>>
              /\ session'.messages = run'.given \o <<Message("assistant", run'.response)>>
       /\ (script.pc # "idle" /\ run'.kind = "running") =>
              session'.messages = session.messages
       /\ (script.pc # "idle" /\ run'.kind = "submit") =>
              /\ run'.user_input = script.user_input
              /\ run'.given = session.messages
              /\ session'.messages = run'.given \o <<Message("assistant", run'.response)>>
       /\ (run'.kind = "submit" /\ Truthy(run'.user_input)) =>
              /\ \E text \in VendorErrors \cup VendorReplies :
                     run'.response = Returned(run'.outcome, text)
              /\ ~run'.error]_vars

C8_Witness ==
    /\ run.kind = "submit"
    /\ run.user_input = <<" ", "hi">>
    /\ run.outcome = "ok"
    /\ session.messages = <<Message("user", <<" ", "hi">>), Message("assistant", <<"hello">>)>>

----------------------------------------------------------------------------
(* Claims about clearing the conversation *)

\* every message of a vendor request is the one user turn
OnlyTurn(call, turn) ==
    /\ \A i \in 1..Len(call.messages) : call.messages[i] = turn
    /\ call.history = <<>>
    /\ call.new_turn \in {None, turn.content}
    /\ call.text \in {None, <<>>}
           \cup {ConversationText([i \in 1..n |-> turn]) : n \in 1..2}

\* the request the page has just put on the wire
Posted(fetches) == fetches[Len(fetches)].body

\* C9: a Clear Chat step leaves the conversation empty, in the session UI and
\* in the page (no other step of the page removes a message); the next
\* message appended to the emptied conversation is its sole element, at
\* index 0; the vendor request of a session turn that starts on the emptied
\* conversation carries no other message than that turn, and a request the
\* page sends carries the conversation as it is after the clear and nothing
\* else.
C9_ClearLeavesNoResidue ==
    /\ [][/\ (run'.kind = "clear" /\ program = "app.py") => session'.messages = <<>>
          /\ (program = "page" /\ Len(client'.messages) < Len(client.messages)) =>
                 client'.messages = <<>>
          /\ (session.messages = <<>> /\ session'.messages # <<>>) =>
                 /\ session'.messages[1] = Message("user", run'.user_input)
                 /\ run'.kind = "running" => Len(session'.messages) = 1
                 /\ run'.kind = "submit" =>
                        /\ run'.given = <<Message("user", run'.user_input)>>
                        /\ \A i \in 1..Len(run'.calls) :
                               OnlyTurn(run'.calls[i], Message("user", run'.user_input))
          /\ (client.messages = <<>> /\ client'.messages # <<>>) =>
                 Len(client'.messages) = 1
          /\ (program = "page" /\ Len(net') > Len(net)) =>
                 /\ Posted(net').messages.items = client'.messages
                 /\ client.messages = <<>> =>
                        client'.messages = <<Message("user", Posted(net').message)>>]_vars
    /\ [](/\ (script.pc = "waiting" /\ Len(session.messages) = 1) =>
                 OnlyTurn(script.call[1], session.messages[1])
          /\ (run.kind = "submit" /\ Len(run.given) = 1) =>
                 \A i \in 1..Len(run.calls) : OnlyTurn(run.calls[i], run.given[1]))

\* a turn sent from the page after a Clear Chat, the cleared turn's fetch
\* still in flight
C9_Witness ==
    /\ program = "page"
    /\ Len(net) = 2
    /\ net[1].stage = "handling"
    /\ threads[1].request.messages.items = <<Message("user", <<"hi">>)>>
    /\ net[2].stage = "sent"
    /\ net[2].body.messages.items = client.messages
    /\ Len(client.messages) = 1

-----
(* Claims about the credential resolver *)

\* the store is available, has the api_keys namespace and holds key
StoreHolds(key) ==
    STREAMLIT_AVAILABLE /\ secrets.kind = "ns" /\ secrets.keys[key] # None

\* C10: with required=False, _get_env_var(key) returns the secrets-store
\* value when the store is available, has the api_keys namespace and holds a
\* value for key; otherwise the environment variable of that name; otherwise
\* the default (None when none is given); it never raises.
C10_ResolutionOrder ==
    (resolved.called /\ ~resolved.required) =>
        /\ ~resolved.raised
        /\ resolved.value =
               (IF StoreHolds(resolved.key) THEN secrets.keys[resolved.key]
                ELSE IF environ[resolved.key] # None THEN environ[resolved.key]
                ELSE resolved.default)

C10_Witness ==
    /\ resolved.called /\ ~resolved.required
    /\ StoreHolds(resolved.key)
    /\ environ[resolved.key] = <<"sk-env">>
    /\ resolved.value = <<"sk-secret">>

---------------------------------------------------------------------------------------------------------------------------------------------------
(* Claims about credentials over time *)

\* the key the sources hold now for the provider of a session
KeyNow(ss) == SessionKey(ss.selected_provider, Config(STREAMLIT_AVAILABLE, secrets, environ))

\* a script run that read the key the sources hold now and waits for the
\* vendor has made its call with that key
FreshKey(ss, sc) ==
    (sc.pc = "waiting" /\ sc.key = KeyNow(ss)) => sc.call[1].key = KeyNow(ss)

\* C11: credentials are resolved at the time of each call and never cached:
\* a chat call that has read its key since the sources last changed makes
\* its vendor call with that new value, whatever the sources held during
\* other calls and whatever those calls left behind (POST /api/chat: the
\* request threads; session UI: the sessions of the process).
C11_KeysResolvedPerCall ==
    /\ \A t \in ThreadIds :
           (threads[t].pc = "waiting"
                /\ threads[t].key = ApiKey(RequestProvider(t), environ)) =>
               threads[t].result.calls[1].key = ApiKey(RequestProvider(t), environ)
    /\ FreshKey(session, script)
    /\ FreshKey(peer.session, peer.script)

\* the last two steps made the same resolver call
SameCallTwice(r) == r.called /\ r.before # <<>>

\* C12: two consecutive calls of _get_env_var with the same key (and the same
\* default and required), the secrets store and the environment unchanged in
\* between, give the same result: the same value, or the same ValueError;
\* and a resolver call changes neither the secrets store nor the environment.
C12_ResolverIdempotent ==
    [][resolved' # resolved =>
           /\ environ' = environ
           /\ secrets' = secrets
           /\ STREAMLIT_AVAILABLE' = STREAMLIT_AVAILABLE
           /\ SameCallTwice(resolved') =>
                  /\ resolved'.value = resolved'.before[1].value
                  /\ resolved'.raised = resolved'.before[1].raised]_vars

\* the environment's value returned twice in a row, the store holding no value
C12_Witness ==
    /\ SameCallTwice(resolved)
    /\ ~resolved.required
    /\ ~StoreHolds(resolved.key)
    /\ resolved.value = <<"sk-env">>
    /\ resolved.before[1].value = <<"sk-env">>

---------------------------------------------------------------------------------------------------------------------------------------------------
(* Claims about concurrent requests *)

\* the conversation chat() hands to the adapter for a request body
OwnMessages(body) ==
    Get(body, "messages", [list |-> TRUE, items |-> <<>>]).items
        \o <<Message("user", Get(body, "message", None))>>

\* the vendor call is the one that the request of body asks for
OwnCall(call, body) ==
    /\ call.model = Get(body, "model", "<None>")
    /\ call.temperature = Get(body, "temperature", DefaultTemperature)
    /\ call.max_tokens = Get(body, "max_tokens", DefaultMaxTokens)
    /\ IF Get(body, "provider", "<None>") = "google"
       THEN call.api = "generate_content" /\ call.text = ConversationText(OwnMessages(body))
       ELSE call.messages = OwnMessages(body)

\* thread t has stored its key in the SDK module and has not issued its call
Configured(t) == threads[t].pc = "ready"

\* C13: with two request threads inside chat() in any interleaving, each
\* thread's adapter works on its own request's messages followed by its own
\* user turn, with its own model, temperature and max_tokens, the vendor call
\* it issues carries exactly these, and the reply it sends is the vendor's
\* answer to its own call or its own provider's diagnostic; the adapters
\* share no mutable state: no step of one request changes what the call of
\* another request will be made with.
C13_RequestsDoNotInterfere ==
    /\ [](\A t \in ThreadIds :
              LET th   == threads[t]
                  body == th.request
              IN  /\ th.pc \in {"adapter", "configure", "ready", "waiting"} =>
                         /\ th.locals.messages = OwnMessages(body)
                         /\ th.locals.provider = Get(body, "provider", "<None>")
                         /\ th.locals.model = Get(body, "model", "<None>")
                  /\ th.result.calls # <<>> => OwnCall(th.result.calls[1], body)
                  /\ (th.pc = "done" /\ th.result.reply.success) =>
                         \/ /\ th.result.calls # <<>>
                            /\ th.result.reply.response
                                   \in VendorReplies \cup {ReplyTo(th.result.calls[1])}
                         \/ StartsWith(th.result.reply.response,
                                       <<DisplayName(Get(body, "provider", "<None>")),
                                         " ", "Error:", " ">>)
                  /\ (th.pc = "done" /\ ~th.result.reply.success) =>
                         Get(body, "provider", "<None>") \notin Providers)
    /\ [][\A t, u \in ThreadIds :
              (t # u /\ threads'[t] # threads[t] /\ Configured(u)) => genai' = genai]_vars

----------------------------------------------------------------------------
(* Claims about the arguments of the vendor calls *)

\* one line of the transcript: "<prefix>: <content>" and a newline; a content
\* of None is written as Python formats it
TranscriptLine(msg) ==
    <<IF msg.role = "user" THEN "Human" ELSE "Assistant", ":", " ">>
        \o (IF msg.content = None THEN <<"None">> ELSE msg.content)
        \o <<"\n">>

\* the lines of the first n messages, in order
RECURSIVE Transcript(_, _)
Transcript(messages, n) ==
    IF n = 0 THEN <<>>
    ELSE Transcript(messages, n - 1) \o TranscriptLine(messages[n])

\* the conversation chat() hands to the adapter for the request of thread t
HttpGiven(t) == OwnMessages(threads[t].request)

\* C14: the HTTP Google adapter submits, in its single generate_content
\* call, the n lines "<prefix>: <content>" + newline of the n messages of the
\* conversation in order, prefix "Human" for role user and "Assistant" for
\* any other role, and passes no chat history and no separate turn; the
\* session Google adapter passes a history and a turn and no transcript.
C14_GoogleTranscript ==
    /\ \A t \in ThreadIds :
           RequestProvider(t) = "google" =>
               \A i \in 1..Len(threads[t].result.calls) :
                   LET call == threads[t].result.calls[i]
                   IN  /\ call.api = "generate_content"
                       /\ call.text = Transcript(HttpGiven(t), Len(HttpGiven(t)))
                       /\ Len(SelectSeq(call.text, LAMBDA tok : tok = "\n")) = Len(HttpGiven(t))
                       /\ call.history = <<>> /\ call.new_turn = None /\ call.messages = <<>>
    /\ (run.kind = "submit" /\ run.adapter = "Google") =>
           \A i \in 1..Len(run.calls) :
               /\ run.calls[i].api = "send_message"
               /\ run.calls[i].text = None
               /\ run.calls[i].new_turn = run.user_input
    /\ (script.pc = "waiting" /\ session.selected_provider = "Google") =>
           /\ script.call[1].api = "send_message"
           /\ script.call[1].text = None
           /\ script.call[1].new_turn = script.user_input

\* a conversation with a system turn and an assistant turn, flattened
C14_Witness ==
    /\ Handled(1) /\ RequestProvider(1) = "google" /\ threads[1].outcome = "ok"
    /\ threads[1].request.messages.items = <<Message("system", <<"be brief">>),
                                            Message("assistant", <<"hello">>)>>
    /\ threads[1].result.calls[1].text =
           <<"Assistant", ":", " ", "be brief", "\n",
             "Assistant", ":", " ", "hello", "\n",
             "Human", ":", " ", "hi", "\n">>

\* the list passed to the vendor is the conversation, message by message
SameMessages(passed, conversation) ==
    /\ Len(passed) = Len(conversation)
    /\ \A i \in 1..Len(conversation) :
           /\ passed[i].role = conversation[i].role
           /\ passed[i].content = conversation[i].content

\* C15: the openai, groq and anthropic adapters pass to the vendor call a
\* message list of the conversation's length with, at every index, the role
\* and the content of the conversation's message, together with the request's
\* model, temperature and max_tokens (POST /api/chat: the body's, 0.7 and 1000
\* when absent; session UI: the selected model and the sliders' values), and
\* the conversation the caller holds afterwards is the one it handed over.
C15_MessagesPassThrough ==
    /\ \A t \in ThreadIds :
           RequestProvider(t) \in {"openai", "groq", "anthropic"} =>
               \A i \in 1..Len(threads[t].result.calls) :
                   LET call == threads[t].result.calls[i]
                   IN  /\ SameMessages(call.messages, HttpGiven(t))
                       /\ call.model = Get(threads[t].request, "model", "<None>")
                       /\ call.temperature =
                              Get(threads[t].request, "temperature", DefaultTemperature)
                       /\ call.max_tokens =
                              Get(threads[t].request, "max_tokens", DefaultMaxTokens)
                       /\ call.text = None /\ call.history = <<>>
    /\ (run.kind = "submit" /\ run.adapter \in {"OpenAI", "Groq", "Anthropic"}) =>
           /\ \A i \in 1..Len(run.calls) :
                  /\ SameMessages(run.calls[i].messages, run.given)
                  /\ run.calls[i].model = session.selected_model
                  /\ run.calls[i].temperature = session.temperature
                  /\ run.calls[i].max_tokens = session.max_tokens
           /\ SubSeq(session.messages, 1, Len(run.given)) = run.given
    /\ (script.pc = "waiting"
            /\ session.selected_provider \in {"OpenAI", "Groq", "Anthropic"}) =>
           /\ SameMessages(script.call[1].messages, session.messages)
           /\ script.call[1].model = session.selected_model
           /\ script.call[1].temperature = session.temperature
           /\ script.call[1].max_tokens = session.max_tokens

\* the second turn of a session with Anthropic, the sliders moved
C15_Witness ==
    /\ run.kind = "submit" /\ run.adapter = "Anthropic" /\ run.outcome = "ok"
    /\ Len(run.given) = 3
    /\ run.given[2].role = "assistant"
    /\ SameMessages(run.calls[1].messages, run.given)
    /\ run.calls[1].temperature = 20
    /\ run.calls[1].max_tokens = 100

\* temperature in tenths within [0.0, 2.0], max_tokens within [1, 4000]
InRange(call) ==
    /\ call.temperature \in 0..20
    /\ call.max_tokens \in 1..4000

\* C16: every vendor call that carries generation parameters carries a
\* temperature in [0.0, 2.0] and a max_tokens in [1, 4000]: for the session
\* UI after any slider changes, and for POST /api/chat with any request body,
\* 0.7 and 1000 standing in for absent fields.
C16_ParamsInRange ==
    /\ run.kind = "submit" =>
           \A i \in 1..Len(run.calls) :
               run.calls[i].temperature # NoParam => InRange(run.calls[i])
    /\ \A t \in ThreadIds :
           \A i \in 1..Len(threads[t].result.calls) :
               /\ InRange(threads[t].result.calls[i])
               /\ "temperature" \notin threads[t].request.keys =>
                      threads[t].result.calls[i].temperature = DefaultTemperature
               /\ "max_tokens" \notin threads[t].request.keys =>
                      threads[t].result.calls[i].max_tokens = DefaultMaxTokens

----------------------------------------------------------------------------
(* Claims about the shape of the conversation *)

\* the thread is inside the adapter chat() selected for its request
InAdapter(t) == threads[t].pc \in {"adapter", "configure", "ready", "waiting"}

\* the list chat() has handed to the adapter of thread t (line 350 has
\* appended the user turn to the posted list)
Handed(t) == threads[t].locals.messages

\* C17: in the web flow the list handed to the adapter is the prior turns in
\* order followed by one user entry holding the typed message: it equals the
\* page's conversation right after the send, which the request carries, and
\* the typed message is not in it twice in a row.
C17_UserMessageOnce ==
    \A t \in ThreadIds :
        (program = "page" /\ InAdapter(t)) =>
            /\ Handed(t) = threads[t].request.messages.items
            /\ Handed(t)[Len(Handed(t))] = Message("user", threads[t].request.message)
            /\ Len(Handed(t)) >= 2 =>
                   Handed(t)[Len(Handed(t)) - 1] # Handed(t)[Len(Handed(t))]
            /\ \A i \in 1..Len(threads[t].result.calls) :
                   threads[t].result.calls[i].messages
                       \in {<<>>, threads[t].request.messages.items}

\* even length, roles user, assistant, user, assistant, ...
Alternates(messages) ==
    /\ Len(messages) % 2 = 0
    /\ \A i \in 1..Len(messages) :
           messages[i].role = (IF i % 2 = 1 THEN "user" ELSE "assistant")

\* C18: at the end of every script run of app.py, after any sequence of form
\* submits, provider, model and slider changes and Clear Chat presses,
\* st.session_state.messages has even length and alternates user, assistant
\* starting with user; a submit with empty input leaves the conversation as
\* it was and makes no vendor call.
C18_SessionAlternates ==
    /\ []((program = "app.py" /\ script.pc = "idle") => Alternates(session.messages))
    /\ [][(script.pc = "idle" /\ run'.kind = "submit" /\ ~Truthy(run'.user_input)) =>
              /\ session'.messages = session.messages
              /\ run'.calls = <<>>
              /\ run'.adapter = "none"
              /\ script'.pc = "idle"
              /\ genai' = genai]_vars

\* an empty submit after a failed turn and a Clear Chat followed by a new turn
C18_Witness ==
    /\ program = "app.py"
    /\ run.kind = "submit" /\ run.user_input = <<>>
    /\ Len(session.messages) = 2
    /\ session.messages[2] = Message("assistant", <<"Error:", " ", "vendor failure">>)
    /\ session.selected_provider = "Groq"

====
